---------------------------- MODULE Spec2Model ----------------------------
(***************************************************************************)
(* Model of the button driver of components/drivers/button/src/button.c:   *)
(* the debounce and gesture state machine, its three esp_timer one-shot    *)
(* timers, the GPIO edge interrupt, and button_init / button_deinit.       *)
(*                                                                         *)
(* Execution contexts (the board is a dual-core ESP32-S3):                 *)
(*   - the GPIO ISR (button_isr_handler), one atomic step;                 *)
(*   - the esp_timer task, which runs the timer callbacks one at a time;   *)
(*     a callback is split at the points where the code has read shared    *)
(*     data and not yet written its result, so that the ISR and the API    *)
(*     calls can run in between (the code takes no lock);                  *)
(*   - the application task calling button_init / button_deinit /          *)
(*     button_get_state.                                                   *)
(*                                                                         *)
(* Time is counted in ticks of esp_timer_get_time()/1000, scaled so that   *)
(* one tick is one debounce period.  The code uses the clock only in       *)
(* differences (now - press_time, and the delay until a timer is due), so  *)
(* the model keeps those differences: press_age is now - press_time and a  *)
(* timer's `left` is its due time minus now.  Differences saturate at      *)
(* AgeCap, beyond the largest threshold the code compares them with.       *)
(***************************************************************************)
EXTENDS Integers, Sequences, FiniteSets, TLC

(***************************************************************************)
(* Thresholds (button.c:43-47, values of the Kconfig options scaled to    *)
(* ticks, keeping DEBOUNCE < DOUBLE_CLICK_WINDOW < LONG < XL1 < XL2).      *)
(* The three hold thresholds are read from cfg, the configuration the      *)
(* firmware was built with: Kconfig in Spec, any of Configs in             *)
(* SpecAnyConfig.                                                          *)
(***************************************************************************)
VARIABLE cfg        \* CONFIG_MAIA_BUTTON_*_PRESS_MS of the build

DEBOUNCE_TIME_MS == 1
DOUBLE_CLICK_WINDOW_MS == 2
LONG_PRESS_THRESHOLD_MS == cfg.long_press_ms
EXTRA_LONG_1_THRESHOLD_MS == cfg.extra_long_press_1_ms
EXTRA_LONG_2_THRESHOLD_MS == cfg.extra_long_press_2_ms

Kconfig ==
  [long_press_ms |-> 3, extra_long_press_1_ms |-> 5,
   extra_long_press_2_ms |-> 7]

(***************************************************************************)
(* Bounds of the model.                                                    *)
(***************************************************************************)
MaxLate == 1       \* a due timer's callback starts at most this late
MinThreshold == 2  \* least hold threshold a configuration of Configs carries
MaxThreshold == 4  \* greatest hold threshold a configuration of Configs carries

\* now - press_time and the uptime are compared with the thresholds only
AgeCap ==
  LET a == LONG_PRESS_THRESHOLD_MS
      b == EXTRA_LONG_1_THRESHOLD_MS
      c == EXTRA_LONG_2_THRESHOLD_MS
  IN IF a >= b /\ a >= c THEN a ELSE IF b >= c THEN b ELSE c

NULL == "NULL"
Callbacks == {"cb1", "cb2"}             \* consumer callbacks (non-NULL)
TimerNames == {"debounce", "press", "double"}

\* button_state_t
BUTTON_STATE_IDLE == "IDLE"
BUTTON_STATE_DEBOUNCING_PRESS == "DEBOUNCING_PRESS"
BUTTON_STATE_PRESSED == "PRESSED"
BUTTON_STATE_DEBOUNCING_RELEASE == "DEBOUNCING_RELEASE"
BUTTON_STATE_WAIT_DOUBLE_CLICK == "WAIT_DOUBLE_CLICK"

\* button_event_t
BUTTON_EVENT_PRESSED == "PRESSED"
BUTTON_EVENT_RELEASED == "RELEASED"
BUTTON_EVENT_SINGLE_CLICK == "SINGLE_CLICK"
BUTTON_EVENT_DOUBLE_CLICK == "DOUBLE_CLICK"
BUTTON_EVENT_LONG_PRESS == "LONG_PRESS"
BUTTON_EVENT_EXTRA_LONG_PRESS_1 == "EXTRA_LONG_PRESS_1"
BUTTON_EVENT_EXTRA_LONG_PRESS_2 == "EXTRA_LONG_PRESS_2"

\* esp_err_t
ESP_OK == "ESP_OK"
ESP_ERR_INVALID_STATE == "ESP_ERR_INVALID_STATE"
ESP_ERR_INVALID_ARG == "ESP_ERR_INVALID_ARG"
ESP_FAIL == "ESP_FAIL"

\* gpio_int_type_t, as far as the program uses it
GPIO_INTR_DISABLE == "GPIO_INTR_DISABLE"
GPIO_INTR_NEGEDGE == "GPIO_INTR_NEGEDGE"
GPIO_INTR_ANYEDGE == "GPIO_INTR_ANYEDGE"

VARIABLES
  ctx,        \* g_button_ctx (press_age: now - g_button_ctx.press_time)
  timers,     \* the esp_timer service: timer name -> [created, armed, left]
  level,      \* instantaneous level of MAIA_GPIO_BUTTON (0 = pressed)
  irq,        \* a GPIO edge interrupt is pending
  attached,   \* button_isr_handler is registered with the GPIO ISR service
  uptime,     \* esp_timer_get_time() / 1000
  pc,         \* position of the esp_timer task
  lvl,        \* local `level` of button_debounce_timer_callback
  held_time,  \* local `held_time` of button_process_release
  out,        \* the events the last step delivered to the consumer
  api,        \* the API call that made the last step, with its result
  last_event, \* history: the last event delivered since button_init
  last_pr,    \* history: the last PRESSED/RELEASED delivered since button_init
  pre,        \* history: the state in which the open debounce window began
  phase,      \* history: progress of the gesture that started from rest
  gesture,    \* history: the events of that gesture
  ipc,        \* position of the application task inside button_init
  intr        \* interrupt type configured for MAIA_GPIO_BUTTON

vars == <<ctx, timers, level, irq, attached, uptime, pc, lvl, held_time,
          out, api, last_event, last_pr, pre, phase, gesture, ipc, intr,
          cfg>>

NoCall == [fn |-> "none", cb |-> NULL, ret |-> ESP_OK]

Min(a, b) == IF a < b THEN a ELSE b

\* memset(&g_button_ctx, 0, ..) at uptime `up`: press_time = 0
ZeroCtx(up) ==
  [callback |-> NULL, debounce_timer |-> NULL, press_timer |-> NULL,
   double_timer |-> NULL, state |-> BUTTON_STATE_IDLE, press_age |-> up,
   initialized |-> FALSE, click_count |-> 0]

NoTimer == [created |-> FALSE, armed |-> FALSE, left |-> 0]
IdleTimer == [created |-> TRUE, armed |-> FALSE, left |-> 0]

\* static button_context_t g_button_ctx = {0};
Init ==
  /\ ctx = ZeroCtx(0)
  /\ timers = [t \in TimerNames |-> NoTimer]
  /\ level = 1
  /\ irq = FALSE
  /\ attached = FALSE
  /\ uptime = 0
  /\ pc = "idle"
  /\ lvl = 0
  /\ held_time = 0
  /\ out = <<>>
  /\ api = NoCall
  /\ last_event = "none"
  /\ last_pr = "none"
  /\ pre = "none"
  /\ phase = "none"
  /\ gesture = <<>>
  /\ ipc = "idle"
  /\ intr = GPIO_INTR_NEGEDGE
  /\ cfg = Kconfig

(***************************************************************************)
(* The Timer Service (esp_timer), as the driver uses it.                   *)
(***************************************************************************)

\* esp_timer_start_once(h, delay) arms the one-shot timer h to fire after
\* delay.  A NULL or deleted handle is refused.
TimerStartOnce(tm, h, delay) ==
  IF h = NULL \/ ~tm[h].created THEN tm
  ELSE [tm EXCEPT ![h] = [created |-> TRUE, armed |-> TRUE, left |-> delay]]

\* esp_timer_start_once on a timer that is already armed: the service either
\* cancels and re-arms it or refuses the call and leaves it as it is; the
\* driver ignores the result, and the model allows both.
StartOnceOutcomes(tm, h, delay) ==
  {TimerStartOnce(tm, h, delay)}
    \cup (IF h # NULL /\ tm[h].armed THEN {tm} ELSE {})

\* esp_timer_stop(h)
TimerStop(tm, h) ==
  IF h = NULL \/ ~tm[h].created THEN tm
  ELSE [tm EXCEPT ![h] = IdleTimer]

\* esp_timer_stop(h); esp_timer_delete(h);
TimerStopDelete(tm, h) ==
  IF h = NULL THEN tm ELSE [tm EXCEPT ![h] = NoTimer]

\* The esp_timer task starts callback t: it is idle, t is due, and no armed
\* timer is due earlier.
Due(t) ==
  /\ pc = "idle"
  /\ timers[t].armed
  /\ timers[t].left <= 0
  /\ \A u \in TimerNames : timers[u].armed => timers[u].left >= timers[t].left

\* A one-shot timer is no longer armed once its callback has started.
Fired(t) == [timers EXCEPT ![t] = IdleTimer]

AllIdle(tm) == \A t \in TimerNames : ~tm[t].armed

\* A notification that invokes the consumer twice for one event.
button_notify_event_Twice(cb, event) ==
  IF cb # NULL THEN <<event, event>> ELSE <<>>

(***************************************************************************)
(* button_notify_event: the events a call delivers to the consumer.        *)
(***************************************************************************)
button_notify_event(cb, event) ==
  IF cb # NULL THEN <<event>> ELSE <<>>

(***************************************************************************)
(* History (read by the properties only).                                  *)
(*   phase: none -> e1 -> p1 -> r1 -> single                               *)
(*                         |     `-> e2 -> p2 -> double | long_after_click *)
(*                         |-> long1 | long2                               *)
(*                         `-> h3 -> long3                                 *)
(* e: press window opened, p: press confirmed, r: short release confirmed, *)
(* h3: release window opened on a press held for EXTRA_LONG_2 or more,     *)
(* long1/long2: release confirmed with held in [LONG, EXTRA_LONG_1) / at   *)
(* least EXTRA_LONG_1, long3: the release opened in h3 confirmed;          *)
(* starting from an engine at rest.  Only what the line does (the level    *)
(* an edge or a debounce window reads, how long the press is held) and the *)
(* API calls end a gesture's history; what the engine emits never does.    *)
(***************************************************************************)

\* The engine is at rest: nothing of an earlier gesture is pending.
AtRest ==
  /\ ctx.state = BUTTON_STATE_IDLE
  /\ ctx.click_count = 0
  /\ AllIdle(timers)
  /\ pc = "idle"

PhaseOnEdge ==
  IF AtRest /\ level = 0 THEN "e1"
  ELSE IF phase \in {"p1", "p2"} /\ ctx.state = BUTTON_STATE_PRESSED
          /\ level = 1
    THEN (IF phase = "p1" /\ ctx.press_age >= EXTRA_LONG_2_THRESHOLD_MS
            THEN "h3" ELSE phase)
  ELSE IF phase = "r1" /\ pc = "dbl_emit" THEN "r1"
  ELSE IF phase = "r1" /\ level = 0 THEN "e2"
  ELSE "none"

PhaseOnPress ==
  IF phase = "e1" THEN "p1" ELSE IF phase = "e2" THEN "p2" ELSE "none"

PhaseOnRelease(held) ==
  IF phase = "h3" THEN "long3"
  ELSE IF phase = "p1" THEN
       IF held >= EXTRA_LONG_1_THRESHOLD_MS THEN "long2"
       ELSE IF held >= LONG_PRESS_THRESHOLD_MS THEN "long1"
       ELSE "r1"
  ELSE IF phase = "p2" THEN
       IF held >= LONG_PRESS_THRESHOLD_MS THEN "long_after_click" ELSE "double"
  ELSE "none"

LastOf(prev, evs) == IF evs = <<>> THEN prev ELSE evs[Len(evs)]

IsPR(e) == e \in {BUTTON_EVENT_PRESSED, BUTTON_EVENT_RELEASED}

LastPROf(prev, evs) ==
  IF \E i \in 1..Len(evs) : IsPR(evs[i])
    THEN evs[CHOOSE i \in 1..Len(evs) :
                 IsPR(evs[i]) /\ \A j \in (i+1)..Len(evs) : ~IsPR(evs[j])]
    ELSE prev

\* The step delivers evs and leaves the gesture in phase ph.
Delivers(evs, ph) ==
  /\ out' = evs
  /\ last_event' = LastOf(last_event, evs)
  /\ last_pr' = LastPROf(last_pr, evs)
  /\ phase' = ph
  /\ gesture' = IF ph = "none" THEN <<>> ELSE gesture \o evs

(***************************************************************************)
(* The input line and the clock.                                           *)
(***************************************************************************)

\* Whether an edge to level lv raises the interrupt under type ty.
EdgeRaises(ty, lv) ==
  \/ ty = GPIO_INTR_ANYEDGE
  \/ ty = GPIO_INTR_NEGEDGE /\ lv = 0

\* The line changes level; with the handler attached, an edge of the
\* configured type raises the interrupt.
LineChange ==
  /\ level' = 1 - level
  /\ irq' = (irq \/ (attached /\ EdgeRaises(intr, level')))
  /\ api' = NoCall
  /\ UNCHANGED <<ipc, intr, cfg>>
  /\ Delivers(<<>>, phase)
  /\ UNCHANGED <<ctx, timers, attached, uptime, pc, lvl, held_time, pre>>

\* One tick passes: no interrupt is pending, no callback is running, and no
\* due timer would become later than MaxLate.
Tick ==
  /\ ~irq
  /\ pc = "idle"
  /\ ipc = "idle"
  /\ \A t \in TimerNames : timers[t].armed => timers[t].left > -MaxLate
  /\ uptime' = Min(uptime + 1, AgeCap)
  /\ ctx' = [ctx EXCEPT !.press_age = Min(@ + 1, AgeCap)]
  /\ timers' = [t \in TimerNames |->
                  IF timers[t].armed
                    THEN [timers[t] EXCEPT !.left = @ - 1]
                    ELSE timers[t]]
  /\ api' = NoCall
  /\ UNCHANGED <<ipc, intr, cfg>>
  /\ Delivers(<<>>, phase)
  /\ UNCHANGED <<level, irq, attached, pc, lvl, held_time, pre>>

(***************************************************************************)
(* button_isr_handler                                                      *)
(***************************************************************************)
IsrActs(s) ==
  s \in {BUTTON_STATE_IDLE, BUTTON_STATE_PRESSED, BUTTON_STATE_WAIT_DOUBLE_CLICK}

IsrTarget(lv) ==
  IF lv = 0 THEN BUTTON_STATE_DEBOUNCING_PRESS
  ELSE BUTTON_STATE_DEBOUNCING_RELEASE

\* An edge handler that restarts the debounce window on every edge, whatever
\* the state.
button_isr_handler_AnyState ==
  /\ irq
  /\ irq' = FALSE
  /\ IF TRUE
       THEN /\ timers' \in StartOnceOutcomes(timers, ctx.debounce_timer,
                                              DEBOUNCE_TIME_MS)
            /\ ctx' = [ctx EXCEPT !.state = IsrTarget(level)]
            /\ pre' = ctx.state
            /\ out' = <<>>
            /\ phase' = PhaseOnEdge
            /\ gesture' = IF PhaseOnEdge \in {"e1", "none"} THEN <<>>
                          ELSE gesture
            /\ UNCHANGED <<last_event, last_pr>>
       ELSE /\ Delivers(<<>>, phase)
            /\ UNCHANGED <<timers, ctx, pre>>
  /\ api' = NoCall
  /\ UNCHANGED <<ipc, intr, cfg>>
  /\ UNCHANGED <<level, attached, uptime, pc, lvl, held_time>>

\* An edge handler that, with a window already open, re-arms the debounce
\* timer for a fresh DEBOUNCE_TIME_MS.
button_isr_handler_Rearm ==
  /\ irq
  /\ irq' = FALSE
  /\ IF IsrActs(ctx.state)
       THEN /\ timers' \in StartOnceOutcomes(timers, ctx.debounce_timer,
                                              DEBOUNCE_TIME_MS)
            /\ ctx' = [ctx EXCEPT !.state = IsrTarget(level)]
            /\ pre' = ctx.state
            /\ out' = <<>>
            /\ phase' = PhaseOnEdge
            /\ gesture' = IF PhaseOnEdge \in {"e1", "none"} THEN <<>>
                          ELSE gesture
            /\ UNCHANGED <<last_event, last_pr>>
       ELSE /\ Delivers(<<>>, phase)
            /\ timers' = TimerStartOnce(timers, ctx.debounce_timer,
                                        DEBOUNCE_TIME_MS)
            /\ UNCHANGED <<ctx, pre>>
  /\ api' = NoCall
  /\ UNCHANGED <<ipc, intr, cfg>>
  /\ UNCHANGED <<level, attached, uptime, pc, lvl, held_time>>

\* An edge handler that opens the window without starting the debounce timer.
button_isr_handler_NoTimer ==
  /\ irq
  /\ irq' = FALSE
  /\ IF IsrActs(ctx.state)
       THEN /\ UNCHANGED timers
            /\ ctx' = [ctx EXCEPT !.state = IsrTarget(level)]
            /\ pre' = ctx.state
            /\ out' = <<>>
            /\ phase' = PhaseOnEdge
            /\ gesture' = IF PhaseOnEdge \in {"e1", "none"} THEN <<>>
                          ELSE gesture
            /\ UNCHANGED <<last_event, last_pr>>
       ELSE /\ Delivers(<<>>, phase)
            /\ UNCHANGED <<timers, ctx, pre>>
  /\ api' = NoCall
  /\ UNCHANGED <<ipc, intr, cfg>>
  /\ UNCHANGED <<level, attached, uptime, pc, lvl, held_time>>

button_isr_handler ==
  /\ irq
  /\ irq' = FALSE
  /\ IF IsrActs(ctx.state)
       THEN /\ timers' \in StartOnceOutcomes(timers, ctx.debounce_timer,
                                              DEBOUNCE_TIME_MS)
            /\ ctx' = [ctx EXCEPT !.state = IsrTarget(level)]
            /\ pre' = ctx.state
            /\ out' = <<>>
            /\ phase' = PhaseOnEdge
            /\ gesture' = IF PhaseOnEdge \in {"e1", "none"} THEN <<>>
                          ELSE gesture
            /\ UNCHANGED <<last_event, last_pr>>
       ELSE /\ Delivers(<<>>, phase)
            /\ UNCHANGED <<timers, ctx, pre>>
  /\ api' = NoCall
  /\ UNCHANGED <<ipc, intr, cfg>>
  /\ UNCHANGED <<level, attached, uptime, pc, lvl, held_time>>

(***************************************************************************)
(* button_debounce_timer_callback, button_process_press,                   *)
(* button_process_release                                                  *)
(***************************************************************************)

\* The callback starts and reads the level (line 157).
button_debounce_timer_callback ==
  /\ Due("debounce")
  /\ timers' = Fired("debounce")
  /\ lvl' = level
  /\ pc' = "deb_state"
  /\ api' = NoCall
  /\ UNCHANGED <<ipc, intr, cfg>>
  /\ Delivers(<<>>, phase)
  /\ UNCHANGED <<ctx, level, irq, attached, uptime, held_time, pre>>

\* What the debounce callback decides from the state and the level it read.
DebounceVerdict(s, lv) ==
  IF s = BUTTON_STATE_DEBOUNCING_PRESS
    THEN (IF lv = 0 THEN "press" ELSE "noise_idle")
  ELSE IF s = BUTTON_STATE_DEBOUNCING_RELEASE
    THEN (IF lv = 1 THEN "release" ELSE "noise_pressed")
  ELSE "nothing"

\* Lines 159-180, with the first statements of button_process_press (193-194)
\* and of button_process_release (217-221).
debounce_check_state ==
  /\ pc = "deb_state"
  /\ lvl' = 0
  /\ LET v == DebounceVerdict(ctx.state, lvl) IN
       CASE v = "press" ->
              /\ ctx' = [ctx EXCEPT !.press_age = 0,
                                    !.state = BUTTON_STATE_PRESSED]
              /\ pc' = "process_press"
              /\ pre' = "none"
              /\ Delivers(<<>>, PhaseOnPress)
              /\ UNCHANGED <<timers, held_time>>
         [] v = "noise_idle" ->
              /\ ctx' = [ctx EXCEPT !.state = BUTTON_STATE_IDLE]
              /\ pc' = "idle"
              /\ pre' = "none"
              /\ Delivers(<<>>, "none")
              /\ UNCHANGED <<timers, held_time>>
         [] v = "release" ->
              /\ timers' = TimerStop(TimerStop(timers, ctx.press_timer),
                                     ctx.double_timer)
              /\ held_time' = ctx.press_age
              /\ pc' = "process_release"
              /\ pre' = "none"
              /\ Delivers(<<>>, phase)
              /\ UNCHANGED ctx
         [] v = "noise_pressed" ->
              /\ ctx' = [ctx EXCEPT !.state = BUTTON_STATE_PRESSED]
              /\ pc' = "idle"
              /\ pre' = "none"
              /\ Delivers(<<>>, IF phase \in {"p1", "h3"} THEN "p1"
                                ELSE IF phase = "p2" THEN "p2" ELSE "none")
              /\ UNCHANGED <<timers, held_time>>
         [] OTHER ->
              /\ pc' = "idle"
              /\ Delivers(<<>>, phase)
              /\ UNCHANGED <<ctx, timers, held_time, pre>>
  /\ api' = NoCall
  /\ UNCHANGED <<ipc, intr, cfg>>
  /\ UNCHANGED <<level, irq, attached, uptime>>

\* button_process_press from the notification on (lines 196-202).
button_process_press ==
  /\ pc = "process_press"
  /\ Delivers(button_notify_event(ctx.callback, BUTTON_EVENT_PRESSED), phase)
  /\ timers' \in StartOnceOutcomes(timers, ctx.press_timer,
                                    LONG_PRESS_THRESHOLD_MS)
  /\ pc' = "idle"
  /\ api' = NoCall
  /\ UNCHANGED <<ipc, intr, cfg>>
  /\ UNCHANGED <<ctx, level, irq, attached, uptime, lvl, held_time, pre>>

\* held_time >= LONG_PRESS_THRESHOLD_MS: one of the three long branches
\* (lines 228-248), which all reset click_count and go to IDLE.
ReleaseIsLong(held) == held >= LONG_PRESS_THRESHOLD_MS

\* click_count++ on a uint8_t
IncClick(c) == (c + 1) % 256

\* A button_process_release that enters WAIT_DOUBLE_CLICK without starting the
\* double-click timer.
button_process_release_NoDoubleTimer ==
  /\ pc = "process_release"
  /\ LET rel == button_notify_event(ctx.callback, BUTTON_EVENT_RELEASED)
         n == IncClick(ctx.click_count)
         ph == PhaseOnRelease(held_time)
     IN
       IF ReleaseIsLong(held_time) THEN
            /\ Delivers(rel, ph)
            /\ ctx' = [ctx EXCEPT !.click_count = 0,
                                  !.state = BUTTON_STATE_IDLE]
            /\ UNCHANGED timers
       ELSE IF n = 1 THEN
            /\ Delivers(rel, ph)
            /\ ctx' = [ctx EXCEPT !.click_count = n,
                                  !.state = BUTTON_STATE_WAIT_DOUBLE_CLICK]
            /\ UNCHANGED timers
       ELSE IF n = 2 THEN
            /\ Delivers(rel \o button_notify_event(ctx.callback,
                                                   BUTTON_EVENT_DOUBLE_CLICK),
                        ph)
            /\ ctx' = [ctx EXCEPT !.click_count = 0,
                                  !.state = BUTTON_STATE_IDLE]
            /\ UNCHANGED timers
       ELSE
            /\ Delivers(rel, ph)
            /\ ctx' = [ctx EXCEPT !.click_count = n]
            /\ UNCHANGED timers
  /\ held_time' = 0
  /\ pc' = "idle"
  /\ api' = NoCall
  /\ UNCHANGED <<ipc, intr, cfg>>
  /\ UNCHANGED <<level, irq, attached, uptime, lvl, pre>>

\* button_process_release from the notification on (lines 223-272).
button_process_release ==
  /\ pc = "process_release"
  /\ LET rel == button_notify_event(ctx.callback, BUTTON_EVENT_RELEASED)
         n == IncClick(ctx.click_count)
         ph == PhaseOnRelease(held_time)
     IN
       IF ReleaseIsLong(held_time) THEN
            /\ Delivers(rel, ph)
            /\ ctx' = [ctx EXCEPT !.click_count = 0,
                                  !.state = BUTTON_STATE_IDLE]
            /\ UNCHANGED timers
       ELSE IF n = 1 THEN
            /\ Delivers(rel, ph)
            /\ ctx' = [ctx EXCEPT !.click_count = n,
                                  !.state = BUTTON_STATE_WAIT_DOUBLE_CLICK]
            /\ timers' \in StartOnceOutcomes(timers, ctx.double_timer,
                                              DOUBLE_CLICK_WINDOW_MS)
       ELSE IF n = 2 THEN
            /\ Delivers(rel \o button_notify_event(ctx.callback,
                                                   BUTTON_EVENT_DOUBLE_CLICK),
                        ph)
            /\ ctx' = [ctx EXCEPT !.click_count = 0,
                                  !.state = BUTTON_STATE_IDLE]
            /\ UNCHANGED timers
       ELSE
            /\ Delivers(rel, ph)
            /\ ctx' = [ctx EXCEPT !.click_count = n]
            /\ UNCHANGED timers
  /\ held_time' = 0
  /\ pc' = "idle"
  /\ api' = NoCall
  /\ UNCHANGED <<ipc, intr, cfg>>
  /\ UNCHANGED <<level, irq, attached, uptime, lvl, pre>>

(***************************************************************************)
(* button_press_timer_callback                                             *)
(***************************************************************************)

\* The tier the cascade reports for held_time (lines 295-328).
TierEvent(held) ==
  IF held >= EXTRA_LONG_2_THRESHOLD_MS THEN BUTTON_EVENT_EXTRA_LONG_PRESS_2
  ELSE IF held >= EXTRA_LONG_1_THRESHOLD_MS THEN BUTTON_EVENT_EXTRA_LONG_PRESS_1
  ELSE IF held >= LONG_PRESS_THRESHOLD_MS THEN BUTTON_EVENT_LONG_PRESS
  ELSE "none"

\* What the cascade does with press_timer after reporting the tier.
TierRearm(tm, h, held) ==
  IF held >= EXTRA_LONG_2_THRESHOLD_MS THEN TimerStop(tm, h)
  ELSE IF held >= EXTRA_LONG_1_THRESHOLD_MS
    THEN TimerStartOnce(tm, h, EXTRA_LONG_2_THRESHOLD_MS - held)
  ELSE IF held >= LONG_PRESS_THRESHOLD_MS
    THEN TimerStartOnce(tm, h, EXTRA_LONG_1_THRESHOLD_MS - held)
  ELSE tm

\* A press-timer callback without the state test of lines 285-288.
button_press_timer_callback_NoStateTest ==
  /\ Due("press")
  /\ IF FALSE
       THEN /\ timers' = Fired("press")
            /\ Delivers(<<>>, phase)
       ELSE LET held == ctx.press_age IN
            /\ Delivers(IF TierEvent(held) = "none" THEN <<>>
                        ELSE button_notify_event(ctx.callback, TierEvent(held)),
                        phase)
            /\ timers' = TierRearm(Fired("press"), ctx.press_timer, held)
  /\ api' = NoCall
  /\ UNCHANGED <<ipc, intr, cfg>>
  /\ UNCHANGED <<ctx, level, irq, attached, uptime, pc, lvl, held_time, pre>>

button_press_timer_callback ==
  /\ Due("press")
  /\ IF ctx.state # BUTTON_STATE_PRESSED
       THEN /\ timers' = Fired("press")
            /\ Delivers(<<>>, phase)
       ELSE LET held == ctx.press_age IN
            /\ Delivers(IF TierEvent(held) = "none" THEN <<>>
                        ELSE button_notify_event(ctx.callback, TierEvent(held)),
                        phase)
            /\ timers' = TierRearm(Fired("press"), ctx.press_timer, held)
  /\ api' = NoCall
  /\ UNCHANGED <<ipc, intr, cfg>>
  /\ UNCHANGED <<ctx, level, irq, attached, uptime, pc, lvl, held_time, pre>>

(***************************************************************************)
(* button_double_click_timer_callback                                      *)
(***************************************************************************)

\* A double-click callback without the state test of line 341.
button_double_click_timer_callback_NoStateTest ==
  /\ Due("double")
  /\ timers' = Fired("double")
  /\ pc' = "dbl_emit"
  /\ api' = NoCall
  /\ UNCHANGED <<ipc, intr, cfg>>
  /\ Delivers(<<>>, phase)
  /\ UNCHANGED <<ctx, level, irq, attached, uptime, lvl, held_time, pre>>

\* The callback starts and tests the state (line 341).
button_double_click_timer_callback ==
  /\ Due("double")
  /\ timers' = Fired("double")
  /\ pc' = IF ctx.state = BUTTON_STATE_WAIT_DOUBLE_CLICK THEN "dbl_emit"
           ELSE "idle"
  /\ api' = NoCall
  /\ UNCHANGED <<ipc, intr, cfg>>
  /\ Delivers(<<>>, phase)
  /\ UNCHANGED <<ctx, level, irq, attached, uptime, lvl, held_time, pre>>

\* A timeout body that leaves click_count as it is.
double_click_timeout_KeepCount ==
  /\ pc = "dbl_emit"
  /\ Delivers(button_notify_event(ctx.callback, BUTTON_EVENT_SINGLE_CLICK),
              IF phase = "r1" THEN "single" ELSE phase)
  /\ ctx' = [ctx EXCEPT !.state = BUTTON_STATE_IDLE]
  /\ pc' = "idle"
  /\ api' = NoCall
  /\ UNCHANGED <<ipc, intr, cfg>>
  /\ UNCHANGED <<timers, level, irq, attached, uptime, lvl, held_time, pre>>

\* The body of the if (lines 343-348).
double_click_timeout ==
  /\ pc = "dbl_emit"
  /\ Delivers(button_notify_event(ctx.callback, BUTTON_EVENT_SINGLE_CLICK),
              IF phase = "r1" THEN "single" ELSE phase)
  /\ ctx' = [ctx EXCEPT !.click_count = 0, !.state = BUTTON_STATE_IDLE]
  /\ pc' = "idle"
  /\ api' = NoCall
  /\ UNCHANGED <<ipc, intr, cfg>>
  /\ UNCHANGED <<timers, level, irq, attached, uptime, lvl, held_time, pre>>

(***************************************************************************)
(* button_init                                                             *)
(***************************************************************************)

\* The fallible steps of button_init, in order; "none": all of them succeed.
InitFailures == {"none", "debounce", "press", "double", "isr_add", "intr_type"}

\* The timers button_init has created, and deleted again, when step f fails.
CreatedBefore(f) ==
  CASE f = "debounce" -> {}
    [] f = "press" -> {"debounce"}
    [] f = "double" -> {"debounce", "press"}
    [] OTHER -> TimerNames

\* A button_init that tests the callback before the initialized flag.
InitResult_ArgFirst(initialized, cb, f) ==
  IF cb = NULL THEN ESP_ERR_INVALID_ARG
  ELSE IF initialized THEN ESP_ERR_INVALID_STATE
  ELSE IF f # "none" THEN ESP_FAIL
  ELSE ESP_OK

\* A button_init without the NULL test on the callback.
InitResult_NoNullCheck(initialized, cb, f) ==
  IF initialized THEN ESP_ERR_INVALID_STATE
  ELSE IF f # "none" THEN ESP_FAIL
  ELSE ESP_OK

\* The guards of button_init (lines 368-378) and the result of the rest.
InitResult(initialized, cb, f) ==
  IF initialized THEN ESP_ERR_INVALID_STATE
  ELSE IF cb = NULL THEN ESP_ERR_INVALID_ARG
  ELSE IF f # "none" THEN ESP_FAIL
  ELSE ESP_OK

\* esp_timer_create into slot t.  A timer that an earlier, failed
\* button_init could not delete is still armed and runs the same callback on
\* g_button_ctx; the model lets it share the slot.
Created(old) == [created |-> TRUE, armed |-> old.armed, left |-> old.left]

\* esp_timer_delete on each timer of S, without esp_timer_stop before: an
\* unarmed timer is deleted; for an armed one the service either deletes it
\* or refuses and leaves it armed.  The driver ignores the result.
DeleteOutcomes(tm, S) ==
  {d \in [TimerNames -> {NoTimer} \cup {tm[t] : t \in TimerNames}] :
     \A t \in TimerNames :
       IF t \in S THEN d[t] = NoTimer \/ (tm[t].armed /\ d[t] = tm[t])
       ELSE d[t] = tm[t]}

\* button_init up to and including gpio_isr_handler_add (lines 364-444); f is
\* the step that fails.  When everything up to there succeeds the call goes
\* on to gpio_set_intr_type with the handler already registered.
button_init(cb, f) ==
  LET r == InitResult(ctx.initialized, cb, f)
      fresh == [ZeroCtx(uptime) EXCEPT !.callback = cb]
      made == [t \in TimerNames |->
                 IF t \in CreatedBefore(f) THEN Created(timers[t])
                 ELSE timers[t]]
  IN
  /\ ipc = "idle"
  /\ IF r = ESP_OK \/ (r = ESP_FAIL /\ f = "intr_type") THEN
          /\ api' = NoCall
          /\ ipc' = "set_intr_type"
          /\ ctx' = [fresh EXCEPT !.debounce_timer = "debounce",
                                  !.press_timer = "press",
                                  !.double_timer = "double"]
          /\ timers' = made
          /\ attached' = TRUE
          /\ out' = <<>>
          /\ last_event' = "none"
          /\ last_pr' = "none"
          /\ pre' = "none"
          /\ phase' = "none"
          /\ gesture' = <<>>
          /\ UNCHANGED irq
     ELSE IF r = ESP_FAIL THEN
          \* memset, then every timer created before the failing step is
          \* deleted; its handle stays in the record
          /\ api' = [fn |-> "button_init", cb |-> cb, ret |-> r]
          /\ ctx' = [fresh EXCEPT
               !.debounce_timer =
                  IF "debounce" \in CreatedBefore(f) THEN "debounce" ELSE NULL,
               !.press_timer =
                  IF "press" \in CreatedBefore(f) THEN "press" ELSE NULL,
               !.double_timer =
                  IF "double" \in CreatedBefore(f) THEN "double" ELSE NULL]
          /\ timers' \in DeleteOutcomes(made, CreatedBefore(f))
          /\ pre' = "none"
          /\ Delivers(<<>>, "none")
          /\ UNCHANGED <<attached, irq, ipc>>
     ELSE
          /\ api' = [fn |-> "button_init", cb |-> cb, ret |-> r]
          /\ Delivers(<<>>, phase)
          /\ UNCHANGED <<ctx, timers, attached, irq, pre, ipc>>
  /\ UNCHANGED <<level, uptime, pc, lvl, held_time, intr, cfg>>

\* The rest of button_init: gpio_set_intr_type(GPIO_INTR_ANYEDGE) and what
\* follows it (lines 447-462); f = "intr_type": the call fails.
button_init_set_intr_type(f) ==
  /\ ipc = "set_intr_type"
  /\ ipc' = "idle"
  /\ IF f = "none" THEN
          /\ api' = [fn |-> "button_init", cb |-> ctx.callback, ret |-> ESP_OK]
          /\ intr' = GPIO_INTR_ANYEDGE
          /\ ctx' = [ctx EXCEPT !.initialized = TRUE]
          /\ Delivers(<<>>, phase)
          /\ UNCHANGED <<timers, attached, irq, pre>>
     ELSE
          /\ api' = [fn |-> "button_init", cb |-> ctx.callback,
                     ret |-> ESP_FAIL]
          /\ attached' = FALSE
          /\ irq' = FALSE
          /\ timers' \in DeleteOutcomes(timers, TimerNames)
          /\ pre' = "none"
          /\ Delivers(<<>>, "none")
          /\ UNCHANGED <<ctx, intr>>
  /\ UNCHANGED <<level, uptime, pc, lvl, held_time, cfg>>

(***************************************************************************)
(* button_deinit                                                           *)
(***************************************************************************)

\* A button_deinit without the initialized test of lines 475-478.
button_deinit_NoGuard ==
  /\ ipc = "idle"
  /\ api' = [fn |-> "button_deinit", cb |-> NULL, ret |-> ESP_OK]
  /\ intr' = GPIO_INTR_DISABLE
  /\ attached' = FALSE
  /\ irq' = FALSE
  /\ timers' = TimerStopDelete(
                 TimerStopDelete(
                   TimerStopDelete(timers, ctx.debounce_timer),
                   ctx.press_timer),
                 ctx.double_timer)
  /\ ctx' = ZeroCtx(uptime)
  /\ pre' = "none"
  /\ Delivers(<<>>, "none")
  /\ UNCHANGED <<level, uptime, pc, lvl, held_time, ipc, cfg>>

\* A button_deinit that clears the record and leaves the timers alone.
button_deinit_NoTimerStop ==
  /\ ipc = "idle"
  /\ IF ~ctx.initialized
       THEN /\ api' = [fn |-> "button_deinit", cb |-> NULL,
                       ret |-> ESP_ERR_INVALID_STATE]
            /\ Delivers(<<>>, phase)
            /\ UNCHANGED <<ctx, timers, level, irq, attached, uptime, pc, lvl,
                           held_time, pre, intr>>
       ELSE /\ api' = [fn |-> "button_deinit", cb |-> NULL, ret |-> ESP_OK]
            /\ intr' = GPIO_INTR_DISABLE
            /\ attached' = FALSE
            /\ irq' = FALSE
            /\ ctx' = ZeroCtx(uptime)
            /\ pre' = "none"
            /\ Delivers(<<>>, "none")
            /\ UNCHANGED <<timers, level, uptime, pc, lvl, held_time>>
  /\ UNCHANGED <<ipc, cfg>>

button_deinit ==
  /\ ipc = "idle"
  /\ IF ~ctx.initialized
       THEN /\ api' = [fn |-> "button_deinit", cb |-> NULL,
                       ret |-> ESP_ERR_INVALID_STATE]
            /\ Delivers(<<>>, phase)
            /\ UNCHANGED <<ctx, timers, level, irq, attached, uptime, pc, lvl,
                           held_time, pre, intr>>
       ELSE /\ api' = [fn |-> "button_deinit", cb |-> NULL, ret |-> ESP_OK]
            /\ intr' = GPIO_INTR_DISABLE
            /\ attached' = FALSE
            /\ irq' = FALSE
            /\ timers' = TimerStopDelete(
                           TimerStopDelete(
                             TimerStopDelete(timers, ctx.debounce_timer),
                             ctx.press_timer),
                           ctx.double_timer)
            /\ ctx' = ZeroCtx(uptime)
            /\ pre' = "none"
            /\ Delivers(<<>>, "none")
            /\ UNCHANGED <<level, uptime, pc, lvl, held_time>>
  /\ UNCHANGED <<ipc, cfg>>

\* button_get_state answering from the debounced state machine instead of the
\* pin.
button_get_state_FromState ==
  /\ ipc = "idle"
  /\ api' = [fn |-> "button_get_state", cb |-> NULL,
             ret |-> IF ctx.state \in {BUTTON_STATE_PRESSED,
                                       BUTTON_STATE_DEBOUNCING_RELEASE}
                     THEN "true" ELSE "false"]
  /\ Delivers(<<>>, phase)
  /\ UNCHANGED <<ctx, timers, level, irq, attached, uptime, pc, lvl,
                 held_time, pre, ipc, intr, cfg>>

(***************************************************************************)
(* button_get_state                                                        *)
(***************************************************************************)
button_get_state ==
  /\ ipc = "idle"
  /\ api' = [fn |-> "button_get_state", cb |-> NULL,
             ret |-> IF level = 0 THEN "true" ELSE "false"]
  /\ Delivers(<<>>, phase)
  /\ UNCHANGED <<ctx, timers, level, irq, attached, uptime, pc, lvl,
                 held_time, pre, ipc, intr, cfg>>

\* The callback arguments button_init is called with.  The driver only tests
\* the pointer against NULL and calls it, so callbacks are interchangeable:
\* an engine that is not initialized is given "cb1" (or NULL), a running one
\* any callback.
CallbackArgs ==
  IF ctx.initialized THEN Callbacks \cup {NULL} ELSE {"cb1", NULL}

(***************************************************************************)
(* The system                                                              *)
(***************************************************************************)
Next ==
  \/ LineChange
  \/ Tick
  \/ button_isr_handler
  \/ button_debounce_timer_callback
  \/ debounce_check_state
  \/ button_process_press
  \/ button_process_release
  \/ button_press_timer_callback
  \/ button_double_click_timer_callback
  \/ double_click_timeout
  \/ \E cb \in CallbackArgs, f \in InitFailures : button_init(cb, f)
  \/ \E f \in {"none", "intr_type"} : button_init_set_intr_type(f)
  \/ button_deinit
  \/ button_get_state

Spec == Init /\ [][Next]_vars

(***************************************************************************)
(* Properties                                                              *)
(***************************************************************************)
Range(q) == {q[i] : i \in 1..Len(q)}

\* C1: the PRESSED and RELEASED events delivered since button_init strictly
\* alternate, starting with PRESSED: a step delivers PRESSED only when the
\* last of the two delivered before was not PRESSED, and RELEASED only when
\* it was PRESSED.
C1_PressedReleasedAlternate ==
  [][ /\ BUTTON_EVENT_PRESSED \in Range(out')
           => last_pr # BUTTON_EVENT_PRESSED
      /\ BUTTON_EVENT_RELEASED \in Range(out')
           => last_pr = BUTTON_EVENT_PRESSED ]_vars

C3_DoubleClickTrace ==
  /\ phase = "double" =>
       /\ gesture = <<BUTTON_EVENT_PRESSED, BUTTON_EVENT_RELEASED,
                      BUTTON_EVENT_PRESSED, BUTTON_EVENT_RELEASED,
                      BUTTON_EVENT_DOUBLE_CLICK>>
       /\ ctx.state = BUTTON_STATE_IDLE
       /\ ctx.click_count = 0
  /\ phase \in {"e2", "p2", "double"} =>
       BUTTON_EVENT_SINGLE_CLICK \notin Range(gesture)

C3_Witness ==
  /\ phase = "double"
  /\ out = <<BUTTON_EVENT_RELEASED, BUTTON_EVENT_DOUBLE_CLICK>>

\* C4: from rest, a confirmed press whose release is confirmed with
\* LONG_PRESS_THRESHOLD_MS <= held < EXTRA_LONG_1_THRESHOLD_MS delivers exactly
\* PRESSED, LONG_PRESS, RELEASED and leaves the engine in IDLE.
C4_LongPressTrace ==
  phase = "long1" =>
    /\ gesture = <<BUTTON_EVENT_PRESSED, BUTTON_EVENT_LONG_PRESS,
                   BUTTON_EVENT_RELEASED>>
    /\ ctx.state = BUTTON_STATE_IDLE

\* C5: from rest, a confirmed press held for EXTRA_LONG_2_THRESHOLD_MS or more
\* before its release edge delivers exactly PRESSED, LONG_PRESS,
\* EXTRA_LONG_PRESS_1, EXTRA_LONG_PRESS_2, RELEASED.
C5_AllTiersTrace ==
  phase = "long3" =>
    gesture = <<BUTTON_EVENT_PRESSED, BUTTON_EVENT_LONG_PRESS,
                BUTTON_EVENT_EXTRA_LONG_PRESS_1,
                BUTTON_EVENT_EXTRA_LONG_PRESS_2, BUTTON_EVENT_RELEASED>>

\* C6: a debounce window that is rejected as noise (the level has reversed
\* when the debounce callback decides) delivers no event and puts the engine
\* back in the state the window was opened in, with click_count and
\* press_time as they were.
C6_NoiseRestoresState ==
  [][ ( /\ pc = "deb_state"
        /\ pc' # "deb_state"
        /\ ctx.initialized
        /\ DebounceVerdict(ctx.state, lvl) \in {"noise_idle", "noise_pressed"} )
      => ( /\ ctx'.state = pre
           /\ ctx'.click_count = ctx.click_count
           /\ ctx'.press_age = ctx.press_age
           /\ out' = <<>> ) ]_vars

\* Whether event e may be delivered right after event prev.  PRESSED opens a
\* gesture, so it follows a closed one; a tier follows PRESSED or a lower
\* tier; a click follows RELEASED.  Where RELEASED may stand is the
\* alternation of C1 and is not restricted here, and neither is the first
\* event after button_init (prev = "none").
FollowsInOrder(prev, e) ==
  CASE prev = "none" ->
         TRUE
    [] e = BUTTON_EVENT_PRESSED ->
         prev \in {BUTTON_EVENT_RELEASED, BUTTON_EVENT_SINGLE_CLICK,
                   BUTTON_EVENT_DOUBLE_CLICK}
    [] e = BUTTON_EVENT_LONG_PRESS ->
         prev = BUTTON_EVENT_PRESSED
    [] e = BUTTON_EVENT_EXTRA_LONG_PRESS_1 ->
         prev \in {BUTTON_EVENT_PRESSED, BUTTON_EVENT_LONG_PRESS}
    [] e = BUTTON_EVENT_EXTRA_LONG_PRESS_2 ->
         prev \in {BUTTON_EVENT_PRESSED, BUTTON_EVENT_LONG_PRESS,
                   BUTTON_EVENT_EXTRA_LONG_PRESS_1}
    [] e = BUTTON_EVENT_RELEASED ->
         TRUE
    [] OTHER ->
         prev = BUTTON_EVENT_RELEASED

\* C7: every event delivered follows the one delivered before it in the
\* order PRESSED, tiers in strictly increasing order, RELEASED, at most one
\* of SINGLE_CLICK / DOUBLE_CLICK: no second PRESSED and no repeated or
\* lower tier before the RELEASED, no tier outside PRESSED..RELEASED, no
\* click that does not follow a RELEASED.
C7_GestureOrder ==
  [][ \A i \in 1..Len(out') :
        FollowsInOrder(IF i = 1 THEN last_event ELSE out'[i - 1], out'[i])
    ]_vars

\* C8: once button_deinit has returned, no timer callback that was already
\* running touches the engine: the record stays cleared, no event is
\* delivered and no timer is armed.  (A record that is not initialized and
\* holds no callback is one button_deinit cleared, or one never initialized;
\* button_init stores the callback before anything else can run.)
C8_TeardownSynchronizes ==
  (~ctx.initialized /\ ctx.callback = NULL) =>
    /\ ctx.state = BUTTON_STATE_IDLE
    /\ ctx.click_count = 0
    /\ out = <<>>
    /\ AllIdle(timers)

C11_InitSuccessResets ==
  [][ (api'.fn = "button_init" /\ api'.ret = ESP_OK /\ pre' = "none")
      => ( /\ ctx'.initialized
           /\ ctx'.state = BUTTON_STATE_IDLE
           /\ ctx'.click_count = 0
           /\ ctx'.callback = api'.cb
           /\ \A t \in TimerNames : timers'[t].created
           /\ attached'
           /\ intr' = GPIO_INTR_ANYEDGE ) ]_vars

C13_DeinitClears ==
  [][ /\ (api'.fn = "button_deinit" /\ ctx.initialized)
         => ( /\ api'.ret = ESP_OK
              /\ ~attached'
              /\ ~irq'
              /\ \A t \in TimerNames : timers'[t] = NoTimer
              /\ ctx' = ZeroCtx(uptime)
              /\ out' = <<>>
              /\ \A cb \in Callbacks :
                   InitResult(ctx'.initialized, cb, "none") = ESP_OK )
      /\ (~ctx.initialized /\ ctx.callback = NULL /\ api'.fn # "button_init")
         => ( /\ out' = <<>>
              /\ AllIdle(timers')
              /\ ~irq' ) ]_vars

\* button_deinit succeeded in the middle of a long press.
C13_Witness ==
  /\ api.fn = "button_deinit"
  /\ api.ret = ESP_OK
  /\ last_event = BUTTON_EVENT_LONG_PRESS
  /\ level = 0

\* C14: when a step of button_init fails, the call returns the error with the
\* engine not initialized and the ISR not registered, a retry passes both
\* guards, and no event is delivered while the engine is not initialized,
\* even if an edge was handled between gpio_isr_handler_add and the failing
\* gpio_set_intr_type.
C14_InitFailureCleansUp ==
  [][ /\ (api'.fn = "button_init" /\ api'.ret = ESP_FAIL)
         => ( /\ ~ctx'.initialized
              /\ ~attached'
              /\ \A cb \in Callbacks :
                   InitResult(ctx'.initialized, cb, "none") = ESP_OK )
      /\ (~ctx.initialized /\ ipc = "idle" /\ ipc' = "idle")
         => out' = <<>> ]_vars


(***************************************************************************)
(* The build configuration, unconstrained.  The three hold thresholds are  *)
(* independent Kconfig integers (button.c:45-47); nothing in the sources   *)
(* relates them to one another, so a build may carry any combination.      *)
(* SpecAnyConfig runs one engine life (initialize, then gestures) under    *)
(* every configuration of Configs.                                         *)
(***************************************************************************)
Configs ==
  [long_press_ms : MinThreshold..MaxThreshold,
   extra_long_press_1_ms : MinThreshold..MaxThreshold,
   extra_long_press_2_ms : MinThreshold..MaxThreshold]

Monotonic(c) ==
  /\ c.long_press_ms < c.extra_long_press_1_ms
  /\ c.extra_long_press_1_ms < c.extra_long_press_2_ms

InitAny ==
  /\ ctx = ZeroCtx(0)
  /\ timers = [t \in TimerNames |-> NoTimer]
  /\ level = 1
  /\ irq = FALSE
  /\ attached = FALSE
  /\ uptime = 0
  /\ pc = "idle"
  /\ lvl = 0
  /\ held_time = 0
  /\ out = <<>>
  /\ api = NoCall
  /\ last_event = "none"
  /\ last_pr = "none"
  /\ pre = "none"
  /\ phase = "none"
  /\ gesture = <<>>
  /\ ipc = "idle"
  /\ intr = GPIO_INTR_NEGEDGE
  /\ cfg \in Configs

NextOneLife ==
  \/ LineChange
  \/ Tick
  \/ button_isr_handler
  \/ button_debounce_timer_callback
  \/ debounce_check_state
  \/ button_process_press
  \/ button_process_release
  \/ button_press_timer_callback
  \/ button_double_click_timer_callback
  \/ double_click_timeout
  \/ button_init("cb1", "none")
  \/ button_init_set_intr_type("none")

SpecAnyConfig == InitAny /\ [][NextOneLife]_vars

\* One engine life under the shipped configuration: button_init succeeds
\* once, then edges, time and the callbacks; no teardown, no failing step.
SpecOneLife == Init /\ [][NextOneLife]_vars

(***************************************************************************)
(* C15: initialize fails with InvalidArgument when the configured          *)
(* thresholds do not satisfy long_press_ms < extra_long_press_1_ms <       *)
(* extra_long_press_2_ms, so an engine is never active with               *)
(* non-monotonic thresholds: whenever the engine is initialized, its       *)
(* thresholds are strictly increasing, and no call of button_init that     *)
(* returns ESP_OK was made under a non-monotonic configuration.            *)
(***************************************************************************)
C15_ActiveOnlyWithMonotonicThresholds ==
  /\ ctx.initialized => Monotonic(cfg)
  /\ (api.fn = "button_init" /\ api.ret = ESP_OK) => Monotonic(cfg)


(***************************************************************************)
(* C16: button_get_state returns true exactly when the line is at the      *)
(* pressed (0) level at the moment of the call, whatever the debounced     *)
(* state, and has no side effect: the record (state, click_count, press    *)
(* time, callback, handles), the timers, the handler registration and the  *)
(* pending interrupt are unchanged and no event is delivered, whether or   *)
(* not the engine is initialized.                                          *)
(***************************************************************************)
C16_GetStateIsPureLevel ==
  [][ api'.fn = "button_get_state"
      => ( /\ (api'.ret = "true") <=> (level = 0)
           /\ api'.ret \in {"true", "false"}
           /\ out' = <<>>
           /\ UNCHANGED <<ctx, timers, attached, irq, intr, level, uptime,
                          pc, lvl, held_time, ipc, cfg>> ) ]_vars

\* The query answers "not pressed" while the debounced state is PRESSED.
C16_Witness ==
  /\ api.fn = "button_get_state"
  /\ api.ret = "false"
  /\ ctx.initialized
  /\ ctx.state = BUTTON_STATE_PRESSED


(***************************************************************************)
(* C17: every mutation of the shared record is atomic with respect to the  *)
(* other context: button_isr_handler never runs (and rewrites state)       *)
(* between a timer callback's read of state and that callback's later      *)
(* writes, so a callback never overwrites a state the edge handler wrote   *)
(* after the callback had decided, e.g. the double-click callback setting  *)
(* IDLE over a freshly opened DEBOUNCING_PRESS.                            *)
(***************************************************************************)
C17_CallbacksAtomic ==
  [][ /\ pc \in {"process_press", "process_release", "dbl_emit"}
         => ~(button_isr_handler /\ ctx'.state # ctx.state)
      /\ (double_click_timeout /\ ctx.initialized)
         => ctx.state = BUTTON_STATE_WAIT_DOUBLE_CLICK ]_vars


(***************************************************************************)
(* C18: in every reachable state of an active engine, between executions   *)
(* of the handler and of the callbacks, state = IDLE implies that the      *)
(* debounce, press and double-click timers are all idle and that           *)
(* click_count = 0; in particular after a press edge opened in             *)
(* WAIT_DOUBLE_CLICK was rejected as noise.                                *)
(***************************************************************************)
C18_IdleIsQuiescent ==
  (ctx.initialized /\ pc = "idle" /\ ipc = "idle"
     /\ ctx.state = BUTTON_STATE_IDLE)
    => (AllIdle(timers) /\ ctx.click_count = 0)


(***************************************************************************)
(* C19: in every reachable state, state = PRESSED implies that the press   *)
(* timer is armed unless EXTRA_LONG_PRESS_2 was already delivered for the  *)
(* current press, and that the double-click timer is idle; in particular   *)
(* when PRESSED is re-entered after a rejected release window during which *)
(* the press timer expired, and when PRESSED is entered from a rejected    *)
(* DEBOUNCING_RELEASE window that was opened in IDLE.                      *)
(***************************************************************************)
C19_PressedHasPressTimer ==
  (ctx.initialized /\ pc = "idle" /\ ipc = "idle"
     /\ ctx.state = BUTTON_STATE_PRESSED)
    => ( /\ ( timers["press"].armed
              \/ last_event = BUTTON_EVENT_EXTRA_LONG_PRESS_2 )
         /\ ~timers["double"].armed )


(***************************************************************************)
(* C20: in every reachable state, state = WAIT_DOUBLE_CLICK implies that   *)
(* the double-click timer is armed, or its callback is about to run, and   *)
(* that click_count = 1: the engine is never in WAIT_DOUBLE_CLICK without  *)
(* a pending double-click timer.                                           *)
(***************************************************************************)
C20_WaitHasDoubleTimer ==
  (ctx.initialized /\ ipc = "idle"
     /\ ctx.state = BUTTON_STATE_WAIT_DOUBLE_CLICK)
    => ( /\ (timers["double"].armed \/ pc = "dbl_emit")
         /\ ctx.click_count = 1 )


\* The engine waits for a second click with the double-click timer running.
C20_Witness ==
  /\ ctx.initialized
  /\ ctx.state = BUTTON_STATE_WAIT_DOUBLE_CLICK
  /\ pc = "idle"
  /\ timers["double"].armed
  /\ timers["double"].left = 0
  /\ last_event = BUTTON_EVENT_RELEASED


(***************************************************************************)
(* C21: once state is DEBOUNCING_PRESS or DEBOUNCING_RELEASE, the only     *)
(* step that changes state is the debounce timer callback: no further raw  *)
(* edge, no press-timer callback and no double-click callback (even one    *)
(* that the edge handler which opened the window preempted) moves the      *)
(* engine out of a DEBOUNCING_* state.                                     *)
(***************************************************************************)
Debouncing(s) ==
  s \in {BUTTON_STATE_DEBOUNCING_PRESS, BUTTON_STATE_DEBOUNCING_RELEASE}

C21_OnlyDebounceLeavesDebouncing ==
  [][ (ctx.initialized /\ Debouncing(ctx.state) /\ ctx'.state # ctx.state)
      => ( /\ pc \in {"deb_state", "process_release"}
           /\ debounce_check_state \/ button_process_release ) ]_vars


(***************************************************************************)
(* C22: the edge handler acts only in IDLE, PRESSED and WAIT_DOUBLE_CLICK. *)
(* A raw edge handled while state is DEBOUNCING_PRESS or                   *)
(* DEBOUNCING_RELEASE is ignored: state, click_count and press_time (the   *)
(* whole record) are unchanged, the debounce timer keeps its deadline (no  *)
(* timer changes), and no event is delivered.                              *)
(***************************************************************************)
\* The step is a run of the edge handler: it consumes the pending interrupt
\* and is not an API call.
IsrStep == irq /\ ~irq' /\ api' = NoCall

C22_EdgeIgnoredWhileDebouncing ==
  [][ /\ (IsrStep /\ ~IsrActs(ctx.state))
         => ( /\ Debouncing(ctx.state)
              /\ UNCHANGED <<ctx, timers, pc, lvl, held_time>>
              /\ out' = <<>> )
      /\ (IsrStep /\ ctx'.state # ctx.state) => IsrActs(ctx.state) ]_vars

\* A release window is open, PRESSED was delivered, and the line is low again
\* with no interrupt pending: the edge handler ran on the second edge.
C22_Witness ==
  /\ ctx.initialized
  /\ ctx.state = BUTTON_STATE_DEBOUNCING_RELEASE
  /\ last_pr = BUTTON_EVENT_PRESSED
  /\ level = 0
  /\ ~irq
  /\ pc = "idle"
  /\ timers["debounce"].armed
  /\ timers["debounce"].left = 0


(***************************************************************************)
(* C23, as stated: a second raw edge handled while the engine is in        *)
(* DEBOUNCING_PRESS or DEBOUNCING_RELEASE re-arms the debounce timer for a *)
(* fresh DEBOUNCE_TIME_MS and sets the tentative state to the level read   *)
(* at that edge.                                                           *)
(***************************************************************************)
C23_SecondEdgeRestartsWindow ==
  [][ (ctx.initialized /\ IsrStep /\ Debouncing(ctx.state))
      => ( /\ timers'["debounce"].armed
           /\ timers'["debounce"].left = DEBOUNCE_TIME_MS
           /\ ctx'.state = IsrTarget(level) ) ]_vars

(***************************************************************************)
(* C23, amended: while a debounce window stays open nothing restarts it.   *)
(* From the edge that opened it until the debounce callback closes it, the *)
(* tentative state (DEBOUNCING_PRESS or DEBOUNCING_RELEASE) is never       *)
(* changed and the time left on the debounce timer never grows, whatever   *)
(* edges are handled meanwhile; the level is read again only when the      *)
(* timer fires.                                                            *)
(***************************************************************************)
C23_WindowKeepsFirstEdge ==
  [][ (ctx.initialized /\ ctx'.initialized
         /\ Debouncing(ctx.state) /\ Debouncing(ctx'.state))
      => ( /\ ctx'.state = ctx.state
           /\ (timers["debounce"].armed /\ timers'["debounce"].armed)
                => timers'["debounce"].left <= timers["debounce"].left
           /\ ~timers["debounce"].armed => ~timers'["debounce"].armed ) ]_vars

\* A press window opened after a click is still open, with its timer running
\* down, while the line is high again and the interrupt was served.
C23_Witness ==
  /\ ctx.initialized
  /\ ctx.state = BUTTON_STATE_DEBOUNCING_PRESS
  /\ last_pr = BUTTON_EVENT_RELEASED
  /\ level = 1
  /\ ~irq
  /\ pc = "idle"
  /\ timers["debounce"].armed
  /\ timers["debounce"].left = 0


(***************************************************************************)
(* C24: whenever release processing classifies a confirmed release as long *)
(* (held >= LONG_PRESS_THRESHOLD_MS), the tier events for that hold were   *)
(* delivered during the press: the last event delivered before RELEASED,   *)
(* after the PRESSED of this press, is LONG_PRESS or a higher tier, at     *)
(* least EXTRA_LONG_PRESS_1 if held >= EXTRA_LONG_1_THRESHOLD_MS, and      *)
(* EXTRA_LONG_PRESS_2 if held >= EXTRA_LONG_2_THRESHOLD_MS.                *)
(***************************************************************************)
TierDelivered(last, held) ==
  IF held >= EXTRA_LONG_2_THRESHOLD_MS
    THEN last = BUTTON_EVENT_EXTRA_LONG_PRESS_2
  ELSE IF held >= EXTRA_LONG_1_THRESHOLD_MS
    THEN last \in {BUTTON_EVENT_EXTRA_LONG_PRESS_1,
                   BUTTON_EVENT_EXTRA_LONG_PRESS_2}
  ELSE IF held >= LONG_PRESS_THRESHOLD_MS
    THEN last \in {BUTTON_EVENT_LONG_PRESS, BUTTON_EVENT_EXTRA_LONG_PRESS_1,
                   BUTTON_EVENT_EXTRA_LONG_PRESS_2}
  ELSE TRUE

C24_LongReleaseHadTier ==
  [][ (ctx.initialized /\ pc = "process_release" /\ button_process_release
         /\ last_pr = BUTTON_EVENT_PRESSED /\ ReleaseIsLong(held_time))
      => TierDelivered(last_event, held_time) ]_vars


(***************************************************************************)
(* C25: when the press-timer callback runs in a state other than PRESSED   *)
(* it does nothing: no event, press_timer not re-armed, the record (state, *)
(* press_time, click_count) unchanged; and a confirmed release cancels     *)
(* press_timer, so that after RELEASED no tier event is delivered until    *)
(* the next PRESSED.                                                       *)
(***************************************************************************)
IsTier(e) ==
  e \in {BUTTON_EVENT_LONG_PRESS, BUTTON_EVENT_EXTRA_LONG_PRESS_1,
         BUTTON_EVENT_EXTRA_LONG_PRESS_2}

C25_PressTimerOnlyInPressed ==
  [][ /\ (button_press_timer_callback /\ ctx.state # BUTTON_STATE_PRESSED)
         => ( /\ out' = <<>>
              /\ ctx' = ctx
              /\ ~timers'["press"].armed
              /\ timers'["debounce"] = timers["debounce"]
              /\ timers'["double"] = timers["double"] )
      /\ (ctx.initialized /\ last_pr = BUTTON_EVENT_RELEASED)
         => \A i \in 1..Len(out') : ~IsTier(out'[i])
      /\ (ctx.initialized /\ pc = "process_release")
         => ~timers["press"].armed ]_vars

\* The press timer of a delivered press ran out inside the release window.
C25_Witness ==
  /\ ctx.initialized
  /\ ctx.state = BUTTON_STATE_DEBOUNCING_RELEASE
  /\ last_event = BUTTON_EVENT_PRESSED
  /\ ctx.press_age >= LONG_PRESS_THRESHOLD_MS
  /\ timers["press"].created
  /\ ~timers["press"].armed
  /\ timers["debounce"].armed
  /\ pc = "idle"


(***************************************************************************)
(* C26: whenever the press-timer callback re-arms press_timer the delay is *)
(* strictly positive and equals the next threshold minus held              *)
(* (EXTRA_LONG_1 - held after LONG_PRESS, EXTRA_LONG_2 - held after        *)
(* EXTRA_LONG_PRESS_1); and every time the callback runs in PRESSED,       *)
(* held >= LONG_PRESS_THRESHOLD_MS, so it delivers exactly one tier event: *)
(* it never runs without delivering and without re-arming.                 *)
(***************************************************************************)
NextThreshold(held) ==
  IF held >= EXTRA_LONG_1_THRESHOLD_MS THEN EXTRA_LONG_2_THRESHOLD_MS
  ELSE EXTRA_LONG_1_THRESHOLD_MS

Quiescent ==
  /\ ctx.initialized
  /\ ipc = "idle"
  /\ pc = "idle"
  /\ ~irq
  /\ ~timers["debounce"].armed
  /\ ~timers["double"].armed

AgreesWithLine ==
  \/ level = 1 /\ ctx.state = BUTTON_STATE_IDLE
  \/ level = 0 /\ ctx.state = BUTTON_STATE_PRESSED

C27_SettlesWithLine ==
  (Quiescent /\ last_pr # "none") => AgreesWithLine


(***************************************************************************)
(* One engine life with the scheduling the platform gives: a pending       *)
(* interrupt is served, the esp_timer task runs a due callback and         *)
(* finishes the callback it has started, and time passes.                  *)
(***************************************************************************)
Scheduling ==
  /\ WF_vars(button_isr_handler)
  /\ WF_vars(button_debounce_timer_callback)
  /\ WF_vars(debounce_check_state)
  /\ WF_vars(button_process_press)
  /\ WF_vars(button_process_release)
  /\ WF_vars(button_press_timer_callback)
  /\ WF_vars(button_double_click_timer_callback)
  /\ WF_vars(double_click_timeout)
  /\ WF_vars(button_init_set_intr_type("none"))
  /\ SF_vars(Tick)

SpecOneLifeFair == SpecOneLife /\ Scheduling

(***************************************************************************)
(* C28: whenever state is DEBOUNCING_PRESS or DEBOUNCING_RELEASE the       *)
(* debounce timer is armed or its callback is executing; release           *)
(* processing always leaves state in IDLE or WAIT_DOUBLE_CLICK, the        *)
(* click_count after the increment being 1 or 2; hence, armed timers       *)
(* eventually firing, every debounce window eventually closes: the engine  *)
(* never remains in a DEBOUNCING_* state for ever.                         *)
(***************************************************************************)
InDebounceCallback == pc \in {"deb_state", "process_press", "process_release"}

C28_DebounceWindowCloses ==
  /\ [](  (ctx.initialized /\ Debouncing(ctx.state))
            => (timers["debounce"].armed \/ InDebounceCallback) )
  /\ [][ (ctx.initialized /\ pc = "process_release"
            /\ button_process_release)
         => ( /\ ctx'.state \in {BUTTON_STATE_IDLE,
                                 BUTTON_STATE_WAIT_DOUBLE_CLICK}
              /\ ReleaseIsLong(held_time)
                   \/ IncClick(ctx.click_count) \in {1, 2} ) ]_vars
  /\ (ctx.initialized /\ Debouncing(ctx.state)) ~> ~Debouncing(ctx.state)


\* Release processing is about to count the second click of a double click:
\* the window is still open, its timer has fired, its callback is running.
C28_Witness ==
  /\ ctx.initialized
  /\ ctx.state = BUTTON_STATE_DEBOUNCING_RELEASE
  /\ pc = "process_release"
  /\ ~timers["debounce"].armed
  /\ ctx.click_count = 1
  /\ ~ReleaseIsLong(held_time)


(***************************************************************************)
(* C29: the consumer callback is invoked only from timer-callback context. *)
(* The edge handler never delivers an event, nor does any API call; every  *)
(* event is delivered by a step of the esp_timer task, which runs one      *)
(* callback at a time, with a registered consumer, and by exactly one      *)
(* invocation: a step delivers no event twice.                             *)
(***************************************************************************)
TimerTaskStep ==
  \/ pc = "process_press" /\ button_process_press
  \/ pc = "process_release" /\ button_process_release
  \/ pc = "idle" /\ Due("press") /\ button_press_timer_callback
  \/ pc = "dbl_emit" /\ double_click_timeout

C29_EventsFromTimerTaskOnly ==
  [][ /\ IsrStep => out' = <<>>
      /\ api' # NoCall => out' = <<>>
      /\ out' # <<>>
         => ( /\ TimerTaskStep
              /\ ctx.callback # NULL
              /\ irq' = irq
              /\ \A i, j \in 1..Len(out') : out'[i] = out'[j] => i = j ) ]_vars

\* A tier event is delivered by the press-timer callback while an edge
\* interrupt is pending.
C29_Witness ==
  /\ out = <<BUTTON_EVENT_EXTRA_LONG_PRESS_1>>
  /\ irq
  /\ level = 1
  /\ pc = "idle"
  /\ ctx.state = BUTTON_STATE_PRESSED


(***************************************************************************)
(* C30: a short click leaves the engine in WAIT_DOUBLE_CLICK; the next     *)
(* press, whose edge is accepted before the double-click timer fires, is   *)
(* confirmed and its release is confirmed with                             *)
(* held >= LONG_PRESS_THRESHOLD_MS.  Then the events of the gesture are    *)
(* PRESSED, RELEASED, PRESSED, LONG_PRESS (and higher tiers), RELEASED:    *)
(* no SINGLE_CLICK and no DOUBLE_CLICK is ever delivered for the first     *)
(* click, click_count is back to 0 and the engine is in IDLE, so that the  *)
(* next short click starts a fresh decision.                               *)
(***************************************************************************)
C30_LongPressAfterClick ==
  phase = "long_after_click" =>
    /\ ctx.state = BUTTON_STATE_IDLE
    /\ ctx.click_count = 0
    /\ BUTTON_EVENT_SINGLE_CLICK \notin Range(gesture)
    /\ BUTTON_EVENT_DOUBLE_CLICK \notin Range(gesture)
    /\ Len(gesture) >= 5
    /\ gesture[1] = BUTTON_EVENT_PRESSED
    /\ gesture[2] = BUTTON_EVENT_RELEASED
    /\ gesture[3] = BUTTON_EVENT_PRESSED
    /\ gesture[4] = BUTTON_EVENT_LONG_PRESS
    /\ \A i \in 5..(Len(gesture) - 1) : IsTier(gesture[i])
    /\ gesture[Len(gesture)] = BUTTON_EVENT_RELEASED

=============================================================================
